---- MODULE Spec2Model ----
(***************************************************************************)
(* Retrieval pipeline of the HackRx query-retrieval service: the text      *)
(* chunker (utils/chunker.py), the embedder (utils/embedder.py), the       *)
(* similarity index (utils/faiss_index.py) and the request handler         *)
(* hackrx_run (main.py).                                                   *)
(*                                                                         *)
(* A Python str is a sequence of one-character strings, so that cleaning,  *)
(* splitting, joining and tokenizing are computed character by character.  *)
(***************************************************************************)
EXTENDS Integers, Sequences, FiniteSets, TLC

VARIABLES
    pc,             \* position of the running call / request
    text,           \* chunk_text: the text argument; hackrx_run: the document text
    chunk_size,     \* chunk_text: chunk_size argument
    overlap,        \* chunk_text: overlap argument
    chunks,         \* the chunk list (chunk_text's result, retrieve's chunks argument)
    error,          \* the exception that reached the caller, "none" when none did
    index,          \* the similarity index: the chunk embeddings, in chunk order
    query_embedding,\* the embedding of the current question
    k,              \* retrieve_top_k_chunks: k argument
    top_indices,    \* retrieve_top_k_chunks: the local top_indices (1-based here)
    top_chunks,     \* retrieve_top_k_chunks: the returned chunk list
    model,          \* embedder.py: the global model handle, "None" until loaded
    request,        \* hackrx_run: the request being handled
    qi,             \* hackrx_run: 1-based position of the question loop
    answers,        \* hackrx_run: the answers list
    response,       \* hackrx_run: what the caller receives
    valid_chunks,   \* validate_chunks: the returned list
    callers,        \* get_model: per calling thread, its position, the object it
                    \* constructed and the handle its last call returned
    handle,         \* embedder.py: which SentenceTransformer object the global
                    \* model refers to, 0 when it is None
    constructed,    \* number of SentenceTransformer(MODEL_NAME) calls that returned
    llm_question,   \* generate_answer: question argument
    llm_context,    \* generate_answer: context argument
    api_key,        \* llm.py: GEMINI_API_KEY, "dummy_key" or a real key
    attempt,        \* generate_answer_with_retry: the loop variable
    outcomes,       \* what each model.generate_content call did, in call order
    sleeps,         \* the delays passed to time.sleep, in call order
    answer,         \* generate_answer: the returned string, "" until it returns
    si,             \* chunk_by_sentences: number of sentences the loop has taken
    current_chunk,  \* chunk_by_sentences: the sentences of the open chunk
    current_size,   \* chunk_by_sentences: the running word count
    cache,          \* main.py: the response cache, key -> [response, timestamp]
    now             \* what datetime.now() returns, in seconds

chunkerVars == <<text, chunk_size, overlap>>
retrieveVars == <<index, query_embedding, k, top_indices, top_chunks>>
requestVars == <<model, request, qi, answers, response>>
validateVars == <<valid_chunks>>
loadVars == <<callers, handle, constructed>>
llmVars == <<llm_question, llm_context, api_key, attempt, outcomes, sleeps, answer>>
sentenceVars == <<si, current_chunk, current_size>>
cacheVars == <<cache, now>>
auxVars == <<validateVars, loadVars, llmVars, sentenceVars, cacheVars>>
vars == <<pc, text, chunk_size, overlap, chunks, error,
          index, query_embedding, k, top_indices, top_chunks,
          model, request, qi, answers, response, auxVars>>

\* the variables of the calls that are not running
ValidateIdle == valid_chunks = <<>>

LoadIdle ==
    /\ callers = <<>>
    /\ handle = 0
    /\ constructed = 0

LLMIdle ==
    /\ llm_question = <<>>
    /\ llm_context = <<>>
    /\ api_key = "dummy_key"
    /\ attempt = 0
    /\ outcomes = <<>>
    /\ sleeps = <<>>
    /\ answer = ""

SentenceIdle ==
    /\ si = 0
    /\ current_chunk = <<>>
    /\ current_size = 0

CacheIdle ==
    /\ cache = <<>>
    /\ now = 0

AuxIdle == ValidateIdle /\ LoadIdle /\ LLMIdle /\ SentenceIdle /\ CacheIdle

----------------------------------------------------------------------------
(* Bounds of the model *)

MaxTextLen == 6
MaxChunkSize == 2
MaxChunks == 3
MaxQuestions == 2
MaxThreads == 2
MaxTicks == 1

----------------------------------------------------------------------------
(* Characters and the str methods the code uses *)

UpperChars == <<"A","B","C","D","E","F","G","H","I","J","K","L","M",
                "N","O","P","Q","R","S","T","U","V","W","X","Y","Z">>
LowerChars == <<"a","b","c","d","e","f","g","h","i","j","k","l","m",
                "n","o","p","q","r","s","t","u","v","w","x","y","z">>
DigitChars == {"0","1","2","3","4","5","6","7","8","9"}

\* \s of the re module (the ASCII members the model uses)
WhitespaceChars == {" ", "\t", "\n"}
\* \w of the re module
WordChars == {UpperChars[i] : i \in 1..26} \cup {LowerChars[i] : i \in 1..26}
                \cup DigitChars \cup {"_"}
\* the punctuation clean_text keeps: \. \, \! \? \; \: \- \( \) \[ \] \{ \}
SafePunct == {".", ",", "!", "?", ";", ":", "-", "(", ")", "[", "]", "{", "}"}
\* [.!?] of split_into_sentences
SentenceEnd == {".", "!", "?"}

Min(a, b) == IF a <= b THEN a ELSE b
Max(a, b) == IF a >= b THEN a ELSE b

\* number of leading characters of s that are in S
LeadIn(s, S) ==
    LET ok == {n \in 0..Len(s) : \A i \in 1..n : s[i] \in S}
    IN CHOOSE n \in ok : \A m \in ok : m <= n

\* number of leading characters of s that are not in S
LeadNotIn(s, S) ==
    LET ok == {n \in 0..Len(s) : \A i \in 1..n : s[i] \notin S}
    IN CHOOSE n \in ok : \A m \in ok : m <= n

Drop(s, n) == SubSeq(s, n + 1, Len(s))
Take(s, n) == SubSeq(s, 1, n)

\* str.strip()
Strip(s) ==
    LET l == LeadIn(s, WhitespaceChars)
        ok == {n \in l..Len(s) : n = l \/ s[n] \notin WhitespaceChars}
        r == CHOOSE n \in ok : \A m \in ok : m <= n
    IN SubSeq(s, l + 1, r)

\* str.split(): the maximal runs of non-whitespace characters
RECURSIVE Split(_)
Split(s) ==
    LET t == Drop(s, LeadIn(s, WhitespaceChars))
        n == LeadNotIn(t, WhitespaceChars)
    IN IF t = <<>> THEN <<>> ELSE <<Take(t, n)>> \o Split(Drop(t, n))

\* " ".join(parts)
RECURSIVE Join(_)
Join(parts) ==
    IF parts = <<>> THEN <<>>
    ELSE IF Len(parts) = 1 THEN parts[1]
    ELSE parts[1] \o <<" ">> \o Join(Tail(parts))

\* str.lower(), one character
LowerChar(c) ==
    IF \E i \in 1..26 : UpperChars[i] = c
    THEN LowerChars[CHOOSE i \in 1..26 : UpperChars[i] = c]
    ELSE c

Lower(s) == [i \in 1..Len(s) |-> LowerChar(s[i])]

----------------------------------------------------------------------------
(* utils/chunker.py *)

\* re.sub(r'\s+', ' ', text)
RECURSIVE CollapseWhitespace(_)
CollapseWhitespace(s) ==
    IF s = <<>> THEN <<>>
    ELSE IF Head(s) \in WhitespaceChars
         THEN <<" ">> \o CollapseWhitespace(Drop(s, LeadIn(s, WhitespaceChars)))
         ELSE <<Head(s)>> \o CollapseWhitespace(Tail(s))

\* re.sub(r'[^\w\s\.\,\!\?\;\:\-\(\)\[\]\{\}]', ' ', text)
ReplaceSpecial(s) ==
    [i \in 1..Len(s) |->
        IF s[i] \in WordChars \cup WhitespaceChars \cup SafePunct THEN s[i] ELSE " "]

clean_text(s) == Strip(ReplaceSpecial(CollapseWhitespace(s)))

\* re.split(r'(?<=[.!?])\s+', text): cur is the piece read so far
RECURSIVE ReSplit(_, _)
ReSplit(s, cur) ==
    IF s = <<>> THEN <<cur>>
    ELSE IF /\ Head(s) \in WhitespaceChars
            /\ cur # <<>>
            /\ cur[Len(cur)] \in SentenceEnd
         THEN <<cur>> \o ReSplit(Drop(s, LeadIn(s, WhitespaceChars)), <<>>)
         ELSE ReSplit(Tail(s), Append(cur, Head(s)))

\* [s.strip() for s in sentences if s.strip()]
RECURSIVE StripNonEmpty(_)
StripNonEmpty(parts) ==
    IF parts = <<>> THEN <<>>
    ELSE IF Strip(Head(parts)) # <<>>
         THEN <<Strip(Head(parts))>> \o StripNonEmpty(Tail(parts))
         ELSE StripNonEmpty(Tail(parts))

split_into_sentences(s) == StripNonEmpty(ReSplit(s, <<>>))

\* len(s.split())
WordCount(s) == Len(Split(s))

RECURSIVE SumWordCount(_)
SumWordCount(parts) ==
    IF parts = <<>> THEN 0 ELSE WordCount(Head(parts)) + SumWordCount(Tail(parts))

\* chunks.append(chunk) when chunk.strip() is not empty
AppendIfText(acc, chunk) == IF Strip(chunk) # <<>> THEN Append(acc, chunk) ELSE acc

\* an iteration that starts the new chunk with the new sentence alone
SentenceStep_NoSeed(st, sentence, size) ==
    LET sentence_size == WordCount(sentence)
        cc == st.current_chunk
    IN IF st.current_size + sentence_size > size /\ cc # <<>>
       THEN [chunks |-> AppendIfText(st.chunks, Join(cc)),
             current_chunk |-> <<sentence>>,
             current_size |-> sentence_size]
       ELSE [chunks |-> st.chunks,
             current_chunk |-> Append(cc, sentence),
             current_size |-> st.current_size + sentence_size]

\* one iteration of the for loop of chunk_by_sentences
SentenceStep(st, sentence, size) ==
    LET sentence_size == WordCount(sentence)
        cc == st.current_chunk
    IN IF st.current_size + sentence_size > size /\ cc # <<>>
       THEN LET overlap_sentences ==
                    IF Len(cc) >= 2 THEN SubSeq(cc, Len(cc) - 1, Len(cc)) ELSE cc
                next_chunk == overlap_sentences \o <<sentence>>
            IN [chunks |-> AppendIfText(st.chunks, Join(cc)),
                current_chunk |-> next_chunk,
                current_size |-> SumWordCount(next_chunk)]
       ELSE [chunks |-> st.chunks,
             current_chunk |-> Append(cc, sentence),
             current_size |-> st.current_size + sentence_size]

RECURSIVE SentenceLoop(_, _, _)
SentenceLoop(st, sentences, size) ==
    IF sentences = <<>> THEN st
    ELSE SentenceLoop(SentenceStep(st, Head(sentences), size), Tail(sentences), size)

\* chunk_by_sentences without the final "Add final chunk" block
chunk_by_sentences_NoFinal(sentences, size, ovl) ==
    SentenceLoop([chunks |-> <<>>, current_chunk |-> <<>>, current_size |-> 0],
                 sentences, size).chunks

chunk_by_sentences(sentences, size, ovl) ==
    LET st == SentenceLoop([chunks |-> <<>>, current_chunk |-> <<>>, current_size |-> 0],
                           sentences, size)
    IN IF st.current_chunk # <<>>
       THEN AppendIfText(st.chunks, Join(st.current_chunk))
       ELSE st.chunks

\* the body of the for loop of chunk_by_words, from word index i (0-based)
RECURSIVE WordLoop(_, _, _, _)
WordLoop(words, i, size, step) ==
    IF i >= Len(words) THEN <<>>
    ELSE LET chunk == Join(SubSeq(words, i + 1, Min(i + size, Len(words))))
         IN (IF Strip(chunk) # <<>> THEN <<chunk>> ELSE <<>>)
                \o WordLoop(words, i + step, size, step)

\* range(0, len(words), chunk_size - overlap) raises ValueError for a step of 0
\* and is empty for a negative step
chunk_by_words(s, size, ovl) ==
    LET words == Split(s)
        step == size - ovl
    IN IF step = 0 THEN [error |-> "ValueError", chunks |-> <<>>]
       ELSE IF step < 0 THEN [error |-> "none", chunks |-> <<>>]
       ELSE [error |-> "none", chunks |-> WordLoop(words, 0, size, step)]

chunk_text(s, size, ovl) ==
    IF s = <<>> \/ Strip(s) = <<>>
    THEN [error |-> "none", chunks |-> <<>>]
    ELSE LET cleaned == clean_text(s)
             sentences == split_into_sentences(cleaned)
         IN IF Len(sentences) <= 1
            THEN chunk_by_words(cleaned, size, ovl)
            ELSE [error |-> "none", chunks |-> chunk_by_sentences(sentences, size, ovl)]

MIN_CHUNK_LENGTH == 10

\* keeps the chunks with len(chunk.strip()) > 10, in order
RECURSIVE validate_chunks(_)
validate_chunks(chs) ==
    IF chs = <<>> THEN <<>>
    ELSE IF Head(chs) # <<>> /\ Len(Strip(Head(chs))) > MIN_CHUNK_LENGTH
         THEN <<Head(chs)>> \o validate_chunks(Tail(chs))
         ELSE validate_chunks(Tail(chs))

----------------------------------------------------------------------------
(* utils/embedder.py: embeddings and their similarity *)

\* An embedding is a sparse token-frequency map (a Counter) or a dense vector
\* (model.encode(...).tolist()). The encoder is external: its 384-dimensional
\* output is scaled down to the two-dimensional integer vectors of DenseVecs.
Sparse(f) == [kind |-> "sparse", freq |-> f, vec |-> <<>>]
Dense(v) == [kind |-> "dense", freq |-> <<>>, vec |-> v]
NoEmbedding == [kind |-> "none", freq |-> <<>>, vec |-> <<>>]

DenseVecs == {<<1, 0>>, <<0, 0>>}
\* the vectors drawn for a query where only the query varies
QueryDenseVecs == {<<1, 0>>, <<1, 1>>}

\* re.findall(r'\b\w+\b', s): the maximal runs of word characters
RECURSIVE FindWords(_)
FindWords(s) ==
    LET t == Drop(s, LeadNotIn(s, WordChars))
        n == LeadIn(t, WordChars)
    IN IF t = <<>> THEN <<>> ELSE <<Take(t, n)>> \o FindWords(Drop(t, n))

\* Counter(words)
Counter(words) ==
    [w \in {words[i] : i \in 1..Len(words)} |->
        Cardinality({i \in 1..Len(words) : words[i] = w})]

simple_embed(s) == Sparse(Counter(FindWords(Lower(s))))

\* A similarity score s is kept as the rational s * |s| = num / den (den > 0):
\* the map s -> s * |s| is strictly increasing, so order and ties of scores are
\* those of the real values, and a cosine needs no square root.
Score(n, d) == [num |-> n, den |-> d]
ZeroScore == Score(0, 1)
ScoreLess(a, b) == a.num * b.den < b.num * a.den
ScoreEq(a, b) == a.num * b.den = b.num * a.den

RECURSIVE Dot(_, _)
Dot(a, b) == IF a = <<>> THEN 0 ELSE a[1] * b[1] + Dot(Tail(a), Tail(b))

Sign(x) == IF x > 0 THEN 1 ELSE IF x < 0 THEN 0 - 1 ELSE 0

\* dict branch: |keys1 & keys2| / |keys1 | keys2|, 0 when the union is empty.
\* vector branch: dot / (norm1 * norm2), 0 when a norm is 0. A dict against a
\* list, or two lists of different lengths, make numpy raise: the except branch
\* returns 0.0.
cosine_similarity(vec1, vec2) ==
    IF vec1.kind = "sparse" /\ vec2.kind = "sparse"
    THEN LET words1 == DOMAIN vec1.freq
             words2 == DOMAIN vec2.freq
             intersection == Cardinality(words1 \cap words2)
             union == Cardinality(words1 \cup words2)
         IN IF union > 0 THEN Score(intersection * intersection, union * union)
            ELSE ZeroScore
    ELSE IF vec1.kind = "dense" /\ vec2.kind = "dense" /\ Len(vec1.vec) = Len(vec2.vec)
    THEN LET dot_product == Dot(vec1.vec, vec2.vec)
             sq1 == Dot(vec1.vec, vec1.vec)
             sq2 == Dot(vec2.vec, vec2.vec)
         IN IF sq1 * sq2 > 0
            THEN Score(Sign(dot_product) * dot_product * dot_product, sq1 * sq2)
            ELSE ZeroScore
    ELSE ZeroScore

\* embed_text that returns None when the model is not available
embed_text_NoFallback(m, s, loadOk, enc) ==
    IF m = "None" /\ ~loadOk
    THEN [model |-> "None", embedding |-> NoEmbedding]
    ELSE [model |-> "loaded",
          embedding |-> IF enc.raised THEN simple_embed(s) ELSE Dense(enc.vec)]

\* get_model(): m is the global handle; loadOk tells whether
\* SentenceTransformer(MODEL_NAME) succeeds when it is called. A failed load
\* leaves the handle None, so the next call tries again.
get_model(m, loadOk) ==
    IF m = "None"
    THEN IF loadOk THEN [model |-> "loaded", result |-> "loaded"]
                   ELSE [model |-> "None", result |-> "None"]
    ELSE [model |-> m, result |-> m]

\* what model.encode can do: raise, or return a vector
EncodeOutcomes ==
    {[raised |-> TRUE, vec |-> <<>>]} \cup {[raised |-> FALSE, vec |-> v] : v \in DenseVecs}

\* embed_text(s): the embedding returned and the global handle afterwards
embed_text(m, s, loadOk, enc) ==
    LET g == get_model(m, loadOk)
    IN IF g.result # "None"
       THEN IF enc.raised
            THEN [model |-> g.model, embedding |-> simple_embed(s)]
            ELSE [model |-> g.model, embedding |-> Dense(enc.vec)]
       ELSE [model |-> g.model, embedding |-> simple_embed(s)]

----------------------------------------------------------------------------
(* utils/faiss_index.py *)

build_faiss_index(embeddings) == embeddings

\* Python's order of the tuples (similarity, i): by similarity, then by i
TupleLess(a, b) ==
    \/ ScoreLess(a[1], b[1])
    \/ ScoreEq(a[1], b[1]) /\ a[2] < b[2]

\* similarities.sort(reverse=True): the tuples in descending order
RECURSIVE SortReverse(_)
SortReverse(pairs) ==
    IF pairs = <<>> THEN <<>>
    ELSE LET m == CHOOSE i \in 1..Len(pairs) :
                    \A j \in 1..Len(pairs) : j # i => TupleLess(pairs[j], pairs[i])
         IN <<pairs[m]>> \o
            SortReverse([j \in 1..(Len(pairs) - 1) |->
                            IF j < m THEN pairs[j] ELSE pairs[j + 1]])

\* seq[:n]
Slice(seq, n) ==
    IF n >= 0 THEN Take(seq, Min(n, Len(seq))) ELSE Take(seq, Max(0, Len(seq) + n))

\* retrieve_top_k_chunks without the [:k] slices
retrieve_top_k_chunks_NoSlice(idx, q, chs, kk) ==
    LET similarities == [i \in 1..Len(idx) |-> <<cosine_similarity(q, idx[i]), i>>]
        sorted == SortReverse(similarities)
        tops == [p \in 1..Len(sorted) |-> sorted[p][2]]
    IN IF \A p \in 1..Len(tops) : tops[p] <= Len(chs)
       THEN [top_indices |-> tops,
             result |-> [p \in 1..Len(tops) |-> chs[tops[p]]],
             fallback |-> FALSE]
       ELSE [top_indices |-> tops, result |-> Slice(chs, kk), fallback |-> TRUE]

\* retrieve_top_k_chunks whose except branch returns an empty list
retrieve_top_k_chunks_EmptyFallback(idx, q, chs, kk) ==
    LET similarities == [i \in 1..Len(idx) |-> <<cosine_similarity(q, idx[i]), i>>]
        sorted == SortReverse(similarities)
        top == Slice(sorted, kk)
        tops == [p \in 1..Len(top) |-> top[p][2]]
    IN IF \A p \in 1..Len(tops) : tops[p] <= Len(chs)
       THEN [top_indices |-> tops,
             result |-> [p \in 1..Len(tops) |-> chs[tops[p]]],
             fallback |-> FALSE]
       ELSE [top_indices |-> tops, result |-> <<>>, fallback |-> TRUE]

\* positions are 1-based here; chunks[i] raises IndexError past the end of chunks
\* and the except branch returns chunks[:k]
retrieve_top_k_chunks(idx, q, chs, kk) ==
    LET similarities == [i \in 1..Len(idx) |-> <<cosine_similarity(q, idx[i]), i>>]
        sorted == SortReverse(similarities)
        top == Slice(sorted, kk)
        tops == [p \in 1..Len(top) |-> top[p][2]]
    IN IF \A p \in 1..Len(tops) : tops[p] <= Len(chs)
       THEN [top_indices |-> tops,
             result |-> [p \in 1..Len(tops) |-> chs[tops[p]]],
             fallback |-> FALSE]
       ELSE [top_indices |-> tops, result |-> Slice(chs, kk), fallback |-> TRUE]

----------------------------------------------------------------------------
(* The texts the specifications draw their inputs from *)

\* "Cats are mammals."
CatsChunk == <<"C","a","t","s"," ","a","r","e"," ","m","a","m","m","a","l","s",".">>
\* "Fish are not mammals."
FishChunk == <<"F","i","s","h"," ","a","r","e"," ","n","o","t"," ","m","a","m","m","a","l","s",".">>
\* "Rocks are not alive."
RocksChunk == <<"R","o","c","k","s"," ","a","r","e"," ","n","o","t"," ","a","l","i","v","e",".">>
\* "What is a mammal?"
MammalQuery == <<"W","h","a","t"," ","i","s"," ","a"," ","m","a","m","m","a","l","?">>
\* "Are cats mammals?"
CatsQuery == <<"A","r","e"," ","c","a","t","s"," ","m","a","m","m","a","l","s","?">>

ChunkPool == {CatsChunk, FishChunk, RocksChunk}
QueryPool == {MammalQuery, CatsQuery}

\* what embed_text can return for a text: its token-frequency map, or whatever
\* vector the encoder gives
EmbeddingsOf(s) == {simple_embed(s)} \cup {Dense(v) : v \in DenseVecs}

SeqsUpTo(S, n) == UNION {[1..m -> S] : m \in 0..n}

----------------------------------------------------------------------------
(* utils/llm.py *)

MAX_RETRIES == 3
RETRY_DELAY == 1

\* what one model.generate_content call can give: a non-empty text, an empty
\* text, a response without text, an exception
LLMOutcomes == {"text", "empty", "malformed", "exception"}

NO_CONTEXT_TEXT == "I cannot answer this question as no relevant context was found."
INVALID_QUESTION_TEXT == "Please provide a valid question."
LLM_ANSWER_TEXT == "<response.text.strip()>"
LLM_APOLOGY_TEXT ==
    "I apologize, but I encountered an error while processing your question. Please try again. Error: <e>"
LLM_UNABLE_TEXT == "I apologize, but I was unable to generate an answer. Please try again."
FALLBACK_TEXT == "Fallback response for: <question>"

\* the attempt sequences the specifications draw: n failures of one kind, then
\* texts
AttemptPatterns ==
    {[a \in 1..MAX_RETRIES |-> IF a <= n THEN f ELSE "text"] :
        n \in 0..MAX_RETRIES, f \in LLMOutcomes \ {"text"}}

\* the for loop over range(max_retries): attempts[a] is the outcome of attempt a
RECURSIVE RetryLoop(_, _, _)
RetryLoop(attempts, a, max_retries) ==
    IF a > max_retries THEN LLM_UNABLE_TEXT
    ELSE IF attempts[a] = "text" THEN LLM_ANSWER_TEXT
    ELSE IF a < max_retries THEN RetryLoop(attempts, a + 1, max_retries)
    ELSE LLM_APOLOGY_TEXT

generate_answer_with_retry(question, context, attempts) ==
    IF context = <<>> \/ Strip(context) = <<>> THEN NO_CONTEXT_TEXT
    ELSE IF question = <<>> \/ Strip(question) = <<>> THEN INVALID_QUESTION_TEXT
    ELSE RetryLoop(attempts, 1, MAX_RETRIES)

generate_answer(question, context, attempts) ==
    generate_answer_with_retry(question, context, attempts)

\* the except branch of the retry loop after a failed attempt (0-based): sleep
\* and go on, or return the apology
except_branch_SleepAlways(a, max_retries) == "sleep"

except_branch(a, max_retries) ==
    IF a < max_retries - 1 THEN "sleep" ELSE "return"

----------------------------------------------------------------------------
(* main.py: hackrx_run *)

DEFAULT_CHUNK_SIZE == 500
DEFAULT_OVERLAP == 50
DEFAULT_K == 5

NO_CONTENT_DETAIL == "No valid text content could be extracted from the document"
TOO_LARGE_DETAIL == "Document too large. Maximum 1000000 characters allowed."
UNEXPECTED_DETAIL == "An unexpected error occurred"
PLACEHOLDER_TEXT ==
    "I apologize, but I encountered an error while processing this question: <e>"

\* the message texts that start with "I apologize"
ApologyTexts == {LLM_APOLOGY_TEXT, LLM_UNABLE_TEXT, PLACEHOLDER_TEXT}

NoRequest ==
    [authorization |-> "none", documents |-> [kind |-> "none", text |-> <<>>],
     questions |-> <<>>]
NoResponse == [status |-> 0, detail |-> "", answers |-> <<>>]

HTTPException(status, detail) ==
    [type |-> "HTTPException", status |-> status, detail |-> detail]
DocumentLoadError == [type |-> "DocumentLoadError", status |-> 0, detail |-> ""]

ErrorResponse(exc) == [status |-> exc.status, detail |-> exc.detail, answers |-> <<>>]

\* check_token: the exception it raises, NoException for the right token
NoException == [type |-> "none", status |-> 0, detail |-> ""]
check_token(authorization) ==
    IF authorization = "missing" THEN HTTPException(401, "Missing or invalid token")
    ELSE IF authorization = "wrong" THEN HTTPException(403, "Invalid token")
    ELSE NoException

\* the except clauses of hackrx_run, tried in order: DocumentLoadError, LLMError,
\* Exception. HTTPException is a subclass of Exception.
hackrx_except(exc) ==
    IF exc.type = "DocumentLoadError"
    THEN HTTPException(400, "Document processing failed: <e>")
    ELSE IF exc.type = "LLMError"
    THEN HTTPException(500, "Answer generation failed: <e>")
    ELSE HTTPException(500, UNEXPECTED_DETAIL)

\* "Hi."
ShortDoc == <<"H","i",".">>
\* "##"
SpecialDoc == <<"#","#">>
\* "Cats are mammals. Fish are not mammals."
TwoSentenceDoc == <<"C","a","t","s"," ","a","r","e"," ","m","a","m","m","a","l","s","."," ","F","i","s","h"," ","a","r","e"," ","n","o","t"," ","m","a","m","m","a","l","s",".">>

\* what download_and_parse_document can give: DocumentLoadError, a text longer
\* than MAX_TEXT_LENGTH (its characters are not represented), or a non-blank,
\* stripped text
DocPool == {ShortDoc, SpecialDoc, CatsChunk, TwoSentenceDoc}
DocOutcomes ==
    {[kind |-> "DocumentLoadError", text |-> <<>>], [kind |-> "oversize", text |-> <<>>]}
        \cup {[kind |-> "text", text |-> t] : t \in DocPool}

\* the questions a validated QueryRequest holds: 1..MAX_QUESTIONS non-blank,
\* stripped strings
QuestionLists == {qs \in SeqsUpTo(QueryPool, MaxQuestions) : Len(qs) >= 1}

InitRun ==
    /\ pc = "idle"
    /\ model = "None"
    /\ request = NoRequest
    /\ response = NoResponse
    /\ AuxIdle
    /\ text = <<>>
    /\ chunk_size = DEFAULT_CHUNK_SIZE
    /\ overlap = DEFAULT_OVERLAP
    /\ chunks = <<>>
    /\ error = "none"
    /\ index = <<>>
    /\ query_embedding = NoEmbedding
    /\ k = DEFAULT_K
    /\ top_indices = <<>>
    /\ top_chunks = <<>>
    /\ qi = 0
    /\ answers = <<>>

\* hackrx_run up to the call of embed_chunks: check_token, the document load,
\* the size check, chunk_text and validate_chunks. The request is one the cache
\* does not answer; the lookup and the write of the cache are in SpecCache.
HackrxStart ==
    /\ pc = "idle"
    /\ \E auth \in {"ok", "missing", "wrong"}, doc \in DocOutcomes, qs \in QuestionLists :
        LET req == [authorization |-> auth, documents |-> doc, questions |-> qs]
            denied == check_token(auth)
            chunked == chunk_text(doc.text, DEFAULT_CHUNK_SIZE, DEFAULT_OVERLAP)
            valid == validate_chunks(chunked.chunks)
            Fail(resp, loaded, chs) ==
                /\ response' = resp
                /\ pc' = "responded"
                /\ text' = loaded
                /\ chunks' = chs
        IN /\ request' = req
           /\ IF denied # NoException
              THEN Fail(ErrorResponse(denied), <<>>, <<>>)
              ELSE IF doc.kind = "DocumentLoadError"
              THEN Fail(ErrorResponse(hackrx_except(DocumentLoadError)), <<>>, <<>>)
              ELSE IF doc.kind = "oversize"
              THEN Fail(ErrorResponse(hackrx_except(HTTPException(400, TOO_LARGE_DETAIL))),
                        <<>>, <<>>)
              ELSE IF chunked.error # "none"
              THEN Fail(ErrorResponse(hackrx_except(
                            [type |-> chunked.error, status |-> 0, detail |-> ""])),
                        doc.text, <<>>)
              ELSE IF valid = <<>>
              THEN Fail(ErrorResponse(hackrx_except(HTTPException(400, NO_CONTENT_DETAIL))),
                        doc.text, valid)
              ELSE /\ text' = doc.text
                   /\ chunks' = valid
                   /\ pc' = "embed_chunks"
                   /\ response' = NoResponse
    /\ index' = <<>>
    /\ query_embedding' = NoEmbedding
    /\ top_indices' = <<>>
    /\ top_chunks' = <<>>
    /\ qi' = 0
    /\ answers' = <<>>
    /\ UNCHANGED <<auxVars, chunk_size, overlap, error, k, model>>

\* one iteration of the for loop of embed_chunks. embed_text catches every
\* exception itself, so the except branch of the loop is not entered.
EmbedChunk ==
    /\ pc = "embed_chunks"
    /\ Len(index) < Len(chunks)
    /\ \E loadOk \in BOOLEAN, enc \in EncodeOutcomes :
        LET r == embed_text(model, chunks[Len(index) + 1], loadOk, enc)
        IN /\ index' = Append(index, r.embedding)
           /\ model' = r.model
    /\ UNCHANGED <<auxVars, pc, chunkerVars, chunks, error, query_embedding, k, top_indices,
                   top_chunks, request, qi, answers, response>>

\* embed_chunks returns; build_faiss_index; the question loop starts
EmbedChunksReturn ==
    /\ pc = "embed_chunks"
    /\ Len(index) = Len(chunks)
    /\ index' = build_faiss_index(index)
    /\ pc' = "questions"
    /\ qi' = 1
    /\ answers' = <<>>
    /\ UNCHANGED <<auxVars, chunkerVars, chunks, error, query_embedding, k, top_indices,
                   top_chunks, model, request, response>>

\* An entry of answers: the string, and for the properties the question and the
\* loop position it was appended for and whether the except branch appended it
Answer(txt, question, position, raised) ==
    [text |-> txt, question |-> question, position |-> position, raised |-> raised]

\* the except branch of the question loop, when it appends nothing
question_except_NoAppend(ans, question, position) == ans

\* the except branch of the question loop
question_except(ans, question, position) ==
    Append(ans, Answer(PLACEHOLDER_TEXT, question, position, TRUE))

\* one iteration of the question loop: each call of the try block either raises,
\* and the except branch appends the placeholder, or returns
ProcessQuestion ==
    /\ pc = "questions"
    /\ qi <= Len(request.questions)
    /\ LET question == request.questions[qi]
           Placeholder == answers' = question_except(answers, question, qi)
       IN \/ /\ Placeholder          \* embed_query raises
             /\ UNCHANGED <<model, query_embedding, top_indices, top_chunks>>
          \/ \E loadOk \in BOOLEAN, enc \in EncodeOutcomes :
                LET e == embed_text(model, question, loadOk, enc)
                    r == retrieve_top_k_chunks(index, e.embedding, chunks, k)
                    context == Join(r.result)
                IN /\ model' = e.model
                   /\ query_embedding' = e.embedding
                   /\ \/ /\ Placeholder          \* retrieve_top_k_chunks raises
                         /\ UNCHANGED <<top_indices, top_chunks>>
                      \/ /\ top_indices' = r.top_indices
                         /\ top_chunks' = r.result
                         /\ \/ Placeholder       \* generate_answer raises
                            \/ \E attempts \in AttemptPatterns :
                                 answers' = Append(answers,
                                    Answer(generate_answer(question, context, attempts),
                                           question, qi, FALSE))
    /\ qi' = qi + 1
    /\ UNCHANGED <<auxVars, pc, chunkerVars, chunks, error, index, k, request, response>>

\* after the loop: the response is built and returned
HackrxReturn ==
    /\ pc = "questions"
    /\ qi > Len(request.questions)
    /\ response' = [status |-> 200, detail |-> "", answers |-> answers]
    /\ pc' = "responded"
    /\ UNCHANGED <<auxVars, chunkerVars, chunks, error, retrieveVars, model, request, qi, answers>>

\* the response is delivered and the request's locals are gone; the service
\* waits for the next request, the global model handle is kept
NextRequest ==
    /\ pc = "responded"
    /\ pc' = "idle"
    /\ request' = NoRequest
    /\ response' = NoResponse
    /\ text' = <<>>
    /\ chunks' = <<>>
    /\ index' = <<>>
    /\ query_embedding' = NoEmbedding
    /\ top_indices' = <<>>
    /\ top_chunks' = <<>>
    /\ qi' = 0
    /\ answers' = <<>>
    /\ UNCHANGED <<auxVars, chunk_size, overlap, error, k, model>>

Next ==
    \/ HackrxStart
    \/ EmbedChunk
    \/ EmbedChunksReturn
    \/ ProcessQuestion
    \/ HackrxReturn
    \/ NextRequest

Spec == InitRun /\ [][Next]_vars

\* C5: within one request, the chunk embeddings and the embedding of every
\* question are of one variant, all dense or all sparse.
C5_SingleVariant ==
    /\ \A i, j \in 1..Len(index) : index[i].kind = index[j].kind
    /\ query_embedding # NoEmbedding =>
            \A i \in 1..Len(index) : index[i].kind = query_embedding.kind

\* a request with the right token whose document loaded and gave zero valid chunks
NoContentCase ==
    /\ pc = "responded"
    /\ request.authorization = "ok"
    /\ request.documents.kind = "text"
    /\ chunks = <<>>

\* C6: a request whose document yields zero valid chunks ends with the 400
\* response 'No valid text content could be extracted from the document', and
\* nothing was embedded, retrieved or answered.
C6_NoContentFailure ==
    NoContentCase =>
        /\ response.status = 400
        /\ response.detail = NO_CONTENT_DETAIL
        /\ index = <<>>
        /\ query_embedding = NoEmbedding
        /\ top_chunks = <<>>
        /\ answers = <<>>

\* C9: in the question loop, answers holds one entry per question processed so
\* far, entry i appended for question i, an entry appended by the except branch
\* starts with "I apologize"; and a request that reached the loop ends with a 200
\* response holding one answer per question.
C9_PerQuestionIsolation ==
    /\ pc = "questions" =>
        /\ Len(answers) = qi - 1
        /\ \A i \in 1..Len(answers) :
                /\ answers[i].position = i
                /\ answers[i].question = request.questions[i]
                /\ answers[i].raised => answers[i].text \in ApologyTexts
    /\ (pc = "responded" /\ index # <<>>) =>
        /\ response.status = 200
        /\ Len(response.answers) = Len(request.questions)
        /\ \A i \in 1..Len(response.answers) :
                /\ response.answers[i].position = i
                /\ response.answers[i].question = request.questions[i]
                /\ response.answers[i].raised => response.answers[i].text \in ApologyTexts

\* C9 witness: the first question failed, the second got the LLM's answer
C9_Witness ==
    /\ pc = "responded"
    /\ Len(request.questions) = 2
    /\ Len(response.answers) = 2
    /\ response.answers[1].raised
    /\ ~response.answers[2].raised
    /\ response.answers[2].text = LLM_ANSWER_TEXT

----------------------------------------------------------------------------
(* SpecEmbed: one call embed_chunks(chunks) *)

InitEmbed ==
    /\ pc = "embed_chunks"
    /\ model \in {"None", "loaded"}
    /\ chunks \in SeqsUpTo(ChunkPool, MaxChunks)
    /\ index = <<>>
    /\ request = NoRequest
    /\ response = NoResponse
    /\ AuxIdle
    /\ text = <<>>
    /\ chunk_size = 0
    /\ overlap = 0
    /\ error = "none"
    /\ query_embedding = NoEmbedding
    /\ k = 0
    /\ top_indices = <<>>
    /\ top_chunks = <<>>
    /\ qi = 0
    /\ answers = <<>>

NextEmbed ==
    \/ EmbedChunk
    \/ EmbedChunksReturn

SpecEmbed == InitEmbed /\ [][NextEmbed]_vars

\* C10: the model handle is None after a call of get_model exactly when that
\* call's load failed, so it is None during embed_chunks only while every
\* get_model call returned None. Then embed_chunks raises nothing, the embeddings
\* made so far are the token-frequency maps of the chunks, in chunk order, and
\* embed_chunks returns one per chunk.
C10_SparseDegradation ==
    (model = "None") =>
        /\ error = "none"
        /\ Len(index) <= Len(chunks)
        /\ \A i \in 1..Len(index) : index[i] = Sparse(Counter(FindWords(Lower(chunks[i]))))
        /\ pc = "questions" => Len(index) = Len(chunks)

\* C10 witness: embed_chunks returned for several different chunks with the
\* model never loaded
C10_Witness ==
    /\ pc = "questions"
    /\ model = "None"
    /\ Len(chunks) >= 2
    /\ chunks[1] # chunks[2]
    /\ Len(index) = Len(chunks)


\* [0.0] * 384, scaled to the model's dimension, and the empty map {}
ZeroVector == Dense(<<0, 0>>)
EmptyMap == Sparse(<<>>)

\* C11: a step of embed_chunks made with the model handle already loaded calls
\* the encoder; it appends one embedding and leaves the earlier ones as they
\* are, and the appended one is the encoder's vector or, when the encoder threw,
\* the neutral embedding: the zero vector, or the empty map when the batch is
\* sparse. So it is never a non-empty token-frequency map.
C11_NeutralOnFailure ==
    [][(pc = "embed_chunks" /\ model = "loaded" /\ index' # index) =>
            /\ Len(index') = Len(index) + 1
            /\ SubSeq(index', 1, Len(index)) = index
            /\ LET e == index'[Len(index')]
               IN \/ e.kind = "dense"
                  \/ /\ e = EmptyMap
                     /\ \E i \in 1..Len(index) : index[i].kind = "sparse"]_vars

----------------------------------------------------------------------------
(* SpecChunk: one call chunk_text(text, chunk_size, overlap) *)

ChunkAlphabet == {"a", ".", " ", "#"}

RECURSIVE TextsUpTo(_)
TextsUpTo(n) ==
    IF n = 0 THEN {<<>>}
    ELSE LET shorter == TextsUpTo(n - 1)
         IN shorter \cup {Append(t, c) : t \in {u \in shorter : Len(u) = n - 1},
                                          c \in ChunkAlphabet}

InitChunk ==
    /\ pc = "chunk_call"
    /\ text \in TextsUpTo(MaxTextLen)
    /\ chunk_size \in 1..MaxChunkSize
    /\ overlap \in 0..(chunk_size + 1)
    /\ chunks = <<>>
    /\ error = "none"
    /\ index = <<>>
    /\ query_embedding = NoEmbedding
    /\ k = 0
    /\ top_indices = <<>>
    /\ top_chunks = <<>>
    /\ model = "None"
    /\ request = NoRequest
    /\ qi = 0
    /\ answers = <<>>
    /\ response = NoResponse
    /\ AuxIdle

ChunkText ==
    /\ pc = "chunk_call"
    /\ LET r == chunk_text(text, chunk_size, overlap)
       IN /\ chunks' = r.chunks
          /\ error' = r.error
    /\ pc' = "chunk_done"
    /\ UNCHANGED <<auxVars, chunkerVars, retrieveVars, requestVars>>

NextChunk == ChunkText

SpecChunk == InitChunk /\ [][NextChunk]_vars

\* The sentences chunk_text works on: those of the normalized text
SentencesOf(s) == split_into_sentences(clean_text(s))

ValidConfig == chunk_size > overlap /\ overlap >= 0

\* C3: after chunk_text with chunk_size > overlap >= 0, every chunk has at most
\* chunk_size words, unless the chunk is exactly one sentence that has more than
\* chunk_size words by itself.
C3_ChunkWordBound ==
    (pc = "chunk_done" /\ ValidConfig /\ error = "none") =>
        \A i \in 1..Len(chunks) :
            \/ WordCount(chunks[i]) <= chunk_size
            \/ /\ Len(split_into_sentences(chunks[i])) = 1
               /\ WordCount(chunks[i]) > chunk_size

\* C7: after chunk_text with chunk_size > overlap >= 0 on a text that holds a
\* non-whitespace character, at least one chunk is returned.
C7_NonEmptyTextYieldsChunk ==
    (pc = "chunk_done" /\ ValidConfig /\ Strip(text) # <<>>) =>
        (error = "none" /\ Len(chunks) >= 1)

\* chunks j.. are joins of runs lo..hi of sents, each run starting no later than
\* the sentence after the previous run's end and ending after it, the last run
\* ending with the last sentence
RECURSIVE CoversFrom(_, _, _, _)
CoversFrom(sents, j, prevLo, prevHi) ==
    IF j > Len(chunks) THEN prevHi = Len(sents)
    ELSE \E lo \in prevLo..Min(prevHi + 1, Len(sents)) :
            \E hi \in Max(lo, prevHi + 1)..Len(sents) :
                /\ chunks[j] = Join(SubSeq(sents, lo, hi))
                /\ CoversFrom(sents, j + 1, lo, hi)

\* C8: when the normalized text has two or more sentences, chunk_text returns
\* chunks that are each the join of a run of consecutive whole sentences, the
\* runs advance in source order and leave out no sentence, whatever the
\* sentences' lengths.
C8_NoSentenceOmitted ==
    (pc = "chunk_done" /\ Len(SentencesOf(text)) >= 2) =>
        /\ error = "none"
        /\ CoversFrom(SentencesOf(text), 1, 1, 0)

\* C8 witness: a text of several sentences, one of them longer than chunk_size,
\* chunked into several chunks
C8_Witness ==
    /\ pc = "chunk_done"
    /\ Len(SentencesOf(text)) >= 2
    /\ \E i \in 1..Len(SentencesOf(text)) : WordCount(SentencesOf(text)[i]) > chunk_size
    /\ Len(chunks) >= 2

\* C12: chunk_text called with chunk_size <= overlap on a text that holds a
\* non-whitespace character raises to its caller and returns no chunk list,
\* whichever strategy the text selects.
C12_InvalidConfigRaises ==
    (pc = "chunk_done" /\ chunk_size <= overlap /\ Strip(text) # <<>>) =>
        error # "none"

\* C17: for chunk_size > overlap >= 0, chunk_text on the normalized text
\* clean_text(text) gives the same outcome, chunk for chunk, as chunk_text on the
\* text itself.
C17_IdempotentUnderCleaning ==
    (pc = "chunk_done" /\ ValidConfig) =>
        LET again == chunk_text(clean_text(text), chunk_size, overlap)
        IN again.error = error /\ again.chunks = chunks

\* C18: clean_text(text) has no leading or trailing whitespace, no two
\* whitespace characters in a row, and only word characters, whitespace and the
\* safe punctuation.
C18_CleanTextNormalized ==
    LET c == clean_text(text)
    IN /\ c # <<>> => (c[1] \notin WhitespaceChars /\ c[Len(c)] \notin WhitespaceChars)
       /\ \A i \in 1..(Len(c) - 1) :
            ~(c[i] \in WhitespaceChars /\ c[i + 1] \in WhitespaceChars)
       /\ \A i \in 1..Len(c) : c[i] \in WordChars \cup WhitespaceChars \cup SafePunct

----------------------------------------------------------------------------
(* SpecSentences: chunk_by_sentences on the sentences of a text, one loop *)
(* iteration per step                                                     *)

InitSentences ==
    /\ pc = "sentence_loop"
    /\ text \in {t \in TextsUpTo(MaxTextLen) : Len(SentencesOf(t)) >= 2}
    /\ chunk_size \in 1..MaxChunkSize
    /\ overlap = 0
    /\ chunks = <<>>
    /\ si = 0
    /\ current_chunk = <<>>
    /\ current_size = 0
    /\ ValidateIdle
    /\ LoadIdle
    /\ LLMIdle
    /\ CacheIdle
    /\ error = "none"
    /\ index = <<>>
    /\ query_embedding = NoEmbedding
    /\ k = 0
    /\ top_indices = <<>>
    /\ top_chunks = <<>>
    /\ model = "None"
    /\ request = NoRequest
    /\ qi = 0
    /\ answers = <<>>
    /\ response = NoResponse

sentenceRest == <<chunkerVars, error, retrieveVars, requestVars, validateVars,
                  loadVars, llmVars, cacheVars>>

\* for sentence in sentences: one iteration
SentenceIter ==
    /\ pc = "sentence_loop"
    /\ si < Len(SentencesOf(text))
    /\ LET st == SentenceStep([chunks |-> chunks, current_chunk |-> current_chunk,
                               current_size |-> current_size],
                              SentencesOf(text)[si + 1], chunk_size)
       IN /\ chunks' = st.chunks
          /\ current_chunk' = st.current_chunk
          /\ current_size' = st.current_size
    /\ si' = si + 1
    /\ pc' = IF si + 1 < Len(SentencesOf(text)) THEN "sentence_loop" ELSE "sentence_final"
    /\ UNCHANGED sentenceRest

\* the "Add final chunk" block and the return
SentenceFinal ==
    /\ pc = "sentence_final"
    /\ chunks' = IF current_chunk # <<>> THEN AppendIfText(chunks, Join(current_chunk))
                                        ELSE chunks
    /\ pc' = "sentence_done"
    /\ UNCHANGED <<si, current_chunk, current_size, sentenceRest>>

NextSentences == SentenceIter \/ SentenceFinal

SpecSentences == InitSentences /\ [][NextSentences]_vars

IsPrefix(p, s) == Len(p) <= Len(s) /\ SubSeq(s, 1, Len(p)) = p

\* the last two sentences of cc, its only one when it has one
LastTwo(cc) == IF Len(cc) >= 2 THEN SubSeq(cc, Len(cc) - 1, Len(cc)) ELSE cc

\* the iteration about to run closes the open chunk
ClosesChunk ==
    /\ pc = "sentence_loop"
    /\ current_chunk # <<>>
    /\ current_size + WordCount(SentencesOf(text)[si + 1]) > chunk_size

\* the closed chunk is saved, and the next one is seeded with its last two
\* sentences and the new sentence
SeedsNextChunk ==
    LET sentence == SentencesOf(text)[si + 1]
    IN /\ chunks' = Append(chunks, Join(current_chunk))
       /\ current_chunk' = LastTwo(current_chunk) \o <<sentence>>
       /\ current_size' = SumWordCount(LastTwo(current_chunk)) + WordCount(sentence)

\* every returned chunk after the first begins with the last up-to-2 sentences
\* of the chunk before it, and goes on after them
ChunksOverlap ==
    pc = "sentence_done" =>
        \A j \in 2..Len(chunks) :
            IsPrefix(Join(LastTwo(split_into_sentences(chunks[j - 1]))) \o <<" ">>,
                     chunks[j])

----------------------------------------------------------------------------
(* SpecValidate: one call validate_chunks(chunks) *)

Rep(n) == [i \in 1..n |-> "a"]

\* chunks around the length threshold, bare and padded with whitespace
ValidatePool ==
    {<<>>, Rep(9), Rep(10), Rep(11),
     <<" ">> \o Rep(9) \o <<" ">>, <<" ">> \o Rep(10), <<" ", " ">>}

InitValidate ==
    /\ pc = "validate_call"
    /\ chunks \in SeqsUpTo(ValidatePool, MaxChunks)
    /\ valid_chunks = <<>>
    /\ LoadIdle
    /\ LLMIdle
    /\ SentenceIdle
    /\ CacheIdle
    /\ text = <<>>
    /\ chunk_size = DEFAULT_CHUNK_SIZE
    /\ overlap = DEFAULT_OVERLAP
    /\ error = "none"
    /\ index = <<>>
    /\ query_embedding = NoEmbedding
    /\ k = 0
    /\ top_indices = <<>>
    /\ top_chunks = <<>>
    /\ model = "None"
    /\ request = NoRequest
    /\ qi = 0
    /\ answers = <<>>
    /\ response = NoResponse

Validate ==
    /\ pc = "validate_call"
    /\ valid_chunks' = validate_chunks(chunks)
    /\ pc' = "validate_done"
    /\ UNCHANGED <<chunkerVars, chunks, error, retrieveVars, requestVars,
                   loadVars, llmVars, sentenceVars, cacheVars>>

NextValidate == Validate

SpecValidate == InitValidate /\ [][NextValidate]_vars

\* the chunks of chs whose trimmed length is at least n, in order
RECURSIVE AtLeast(_, _)
AtLeast(chs, n) ==
    IF chs = <<>> THEN <<>>
    ELSE (IF Len(Strip(Head(chs))) >= n THEN <<Head(chs)>> ELSE <<>>)
             \o AtLeast(Tail(chs), n)

\* C13: validate_chunks returns, in input order, exactly the chunks whose
\* trimmed length is not below 10: a chunk of trimmed length 10 is kept and one
\* of trimmed length 9 is dropped.
C13_ThresholdTen ==
    pc = "validate_done" => valid_chunks = AtLeast(chunks, MIN_CHUNK_LENGTH)

----------------------------------------------------------------------------
(* SpecLoad: threads calling get_model(), one bytecode-level step at a time *)

Threads == 1..MaxThreads

IdleCaller == [pc |-> "idle", made |-> 0, result |-> 0]

InitLoad ==
    /\ pc = "get_model"
    /\ model = "None"
    /\ handle = 0
    /\ constructed = 0
    /\ callers = [t \in Threads |-> IdleCaller]
    /\ ValidateIdle
    /\ LLMIdle
    /\ SentenceIdle
    /\ CacheIdle
    /\ text = <<>>
    /\ chunk_size = DEFAULT_CHUNK_SIZE
    /\ overlap = DEFAULT_OVERLAP
    /\ chunks = <<>>
    /\ error = "none"
    /\ index = <<>>
    /\ query_embedding = NoEmbedding
    /\ k = 0
    /\ top_indices = <<>>
    /\ top_chunks = <<>>
    /\ request = NoRequest
    /\ qi = 0
    /\ answers = <<>>
    /\ response = NoResponse

loadRest == <<pc, chunkerVars, chunks, error, retrieveVars, request, qi, answers,
              response, validateVars, llmVars, sentenceVars, cacheVars>>

\* a thread enters get_model()
GetModelCall(t) ==
    /\ callers[t].pc = "idle"
    /\ callers' = [callers EXCEPT ![t].pc = "check"]
    /\ UNCHANGED <<model, handle, constructed, loadRest>>

\* if model is None:
GetModelCheck(t) ==
    /\ callers[t].pc = "check"
    /\ callers' = [callers EXCEPT ![t].pc = IF model = "None" THEN "construct"
                                                              ELSE "return"]
    /\ UNCHANGED <<model, handle, constructed, loadRest>>

\* SentenceTransformer(MODEL_NAME): returns a new object, or raises and the
\* except branch returns None
GetModelConstruct(t) ==
    /\ callers[t].pc = "construct"
    /\ \E loadOk \in BOOLEAN :
        IF loadOk
        THEN /\ constructed' = constructed + 1
             /\ callers' = [callers EXCEPT ![t].pc = "assign",
                                           ![t].made = constructed + 1]
        ELSE /\ constructed' = constructed
             /\ callers' = [callers EXCEPT ![t].pc = "idle", ![t].result = 0]
    /\ UNCHANGED <<model, handle, loadRest>>

\* model = <the object constructed>
GetModelAssign(t) ==
    /\ callers[t].pc = "assign"
    /\ model' = "loaded"
    /\ handle' = callers[t].made
    /\ callers' = [callers EXCEPT ![t].pc = "return"]
    /\ UNCHANGED <<constructed, loadRest>>

\* return model
GetModelReturn(t) ==
    /\ callers[t].pc = "return"
    /\ callers' = [callers EXCEPT ![t].pc = "idle", ![t].result = handle]
    /\ UNCHANGED <<model, handle, constructed, loadRest>>

NextLoad ==
    \E t \in Threads :
        \/ GetModelCall(t)
        \/ GetModelCheck(t)
        \/ GetModelConstruct(t)
        \/ GetModelAssign(t)
        \/ GetModelReturn(t)

SpecLoad == InitLoad /\ [][NextLoad]_vars

\* C14: over every interleaving of get_model calls, SentenceTransformer(MODEL_NAME)
\* completes successfully at most once, and all the calls that return a handle
\* return the same one.
C14_InitializedOnce ==
    /\ constructed <= 1
    /\ \A t, u \in Threads :
        (callers[t].result # 0 /\ callers[u].result # 0) =>
            callers[t].result = callers[u].result

----------------------------------------------------------------------------
(* SpecLLM: one call generate_answer(question, context), one LLM call or one *)
(* sleep per step                                                            *)

InitLLM ==
    /\ pc = "generate_answer"
    /\ llm_question \in {<<>>, <<" ">>, CatsQuery, MammalQuery}
    /\ llm_context \in {<<>>, <<" ", "\n">>, CatsChunk}
    /\ api_key \in {"dummy_key", "key"}
    /\ attempt = 0
    /\ outcomes = <<>>
    /\ sleeps = <<>>
    /\ answer = ""
    /\ ValidateIdle
    /\ LoadIdle
    /\ SentenceIdle
    /\ CacheIdle
    /\ text = <<>>
    /\ chunk_size = DEFAULT_CHUNK_SIZE
    /\ overlap = DEFAULT_OVERLAP
    /\ chunks = <<>>
    /\ error = "none"
    /\ index = <<>>
    /\ query_embedding = NoEmbedding
    /\ k = 0
    /\ top_indices = <<>>
    /\ top_chunks = <<>>
    /\ model = "None"
    /\ request = NoRequest
    /\ qi = 0
    /\ answers = <<>>
    /\ response = NoResponse

llmRest == <<chunkerVars, chunks, error, retrieveVars, requestVars, validateVars,
             loadVars, sentenceVars, cacheVars, llm_question, llm_context, api_key>>

\* the checks of context and question before the loop
GenerateAnswerEnter ==
    /\ pc = "generate_answer"
    /\ IF llm_context = <<>> \/ Strip(llm_context) = <<>>
       THEN answer' = NO_CONTEXT_TEXT /\ pc' = "returned"
       ELSE IF llm_question = <<>> \/ Strip(llm_question) = <<>>
       THEN answer' = INVALID_QUESTION_TEXT /\ pc' = "returned"
       ELSE IF 0 < MAX_RETRIES
       THEN answer' = answer /\ pc' = "attempt"
       ELSE answer' = LLM_UNABLE_TEXT /\ pc' = "returned"
    /\ UNCHANGED <<attempt, outcomes, sleeps, llmRest>>

\* dummy-key mode: the first pass of the loop returns without an LLM call
LLMDummy ==
    /\ pc = "attempt"
    /\ api_key = "dummy_key"
    /\ answer' = FALLBACK_TEXT
    /\ pc' = "returned"
    /\ UNCHANGED <<attempt, outcomes, sleeps, llmRest>>

\* one pass of the try block: model.generate_content and the validation of its
\* response; every failure lands in the except branch
LLMAttempt ==
    /\ pc = "attempt"
    /\ api_key # "dummy_key"
    /\ \E o \in LLMOutcomes :
        /\ outcomes' = Append(outcomes, o)
        /\ IF o = "text"
           THEN answer' = LLM_ANSWER_TEXT /\ pc' = "returned"
           ELSE IF except_branch(attempt, MAX_RETRIES) = "sleep"
           THEN answer' = answer /\ pc' = "sleep"
           ELSE answer' = LLM_APOLOGY_TEXT /\ pc' = "returned"
    /\ UNCHANGED <<attempt, sleeps, llmRest>>

\* time.sleep(RETRY_DELAY * (attempt + 1)), then the next pass of the loop or,
\* when range(max_retries) is used up, the return after the loop
LLMSleep ==
    /\ pc = "sleep"
    /\ sleeps' = Append(sleeps, RETRY_DELAY * (attempt + 1))
    /\ attempt' = attempt + 1
    /\ IF attempt + 1 < MAX_RETRIES
       THEN answer' = answer /\ pc' = "attempt"
       ELSE answer' = LLM_UNABLE_TEXT /\ pc' = "returned"
    /\ UNCHANGED <<outcomes, llmRest>>

NextLLM == GenerateAnswerEnter \/ LLMDummy \/ LLMAttempt \/ LLMSleep

\* every step is a step of the one running call, which goes on until it returns
SpecLLM == InitLLM /\ [][NextLLM]_vars /\ WF_vars(NextLLM)

\* a call that reaches the LLM: non-blank question and context, a real key
CallsLLM ==
    /\ Strip(llm_context) # <<>>
    /\ Strip(llm_question) # <<>>
    /\ api_key # "dummy_key"

RetryDiscipline ==
    /\ error = "none"
    /\ Len(outcomes) <= MAX_RETRIES
    /\ \A i \in 1..(Len(outcomes) - 1) : outcomes[i] # "text"
    /\ pc = "attempt" => Len(sleeps) = Len(outcomes)
    /\ (pc \in {"sleep", "returned"} /\ outcomes # <<>>) =>
            Len(sleeps) = Len(outcomes) - 1
    /\ pc # "returned" => answer = ""
    /\ pc = "returned" =>
        /\ answer # ""
        /\ CallsLLM =>
            /\ outcomes # <<>>
            /\ IF outcomes[Len(outcomes)] = "text"
               THEN answer = LLM_ANSWER_TEXT
               ELSE Len(outcomes) = MAX_RETRIES /\ answer \in ApologyTexts

\* C16: generate_answer raises nothing and returns a string in the end. When
\* the question and the context are not blank it calls the LLM at most
\* MAX_RETRIES times, never again after a non-empty answer, which it returns;
\* it sleeps once between two calls and not after the last one; and when the
\* last of MAX_RETRIES calls failed too (exception, empty text or malformed
\* response) it returns an apology.
C16_RetryThenApology == []RetryDiscipline /\ <>(pc = "returned")

\* C16 witness: three failed calls of three kinds, two sleeps, the apology
C16_Witness ==
    /\ pc = "returned"
    /\ outcomes = <<"exception", "empty", "malformed">>
    /\ sleeps = <<RETRY_DELAY, 2 * RETRY_DELAY>>
    /\ answer = LLM_APOLOGY_TEXT

----------------------------------------------------------------------------
(* SpecRetrieve: one call retrieve_top_k_chunks(index, query_embedding, chunks, k) *)

\* an index entry that has no chunk: the index was built from a longer chunk list
StaleEmbeddings == EmbeddingsOf(CatsChunk)

InitRetrieve ==
    /\ pc = "retrieve_call"
    /\ chunks \in SeqsUpTo(ChunkPool, MaxChunks)
    /\ index \in {e \in SeqsUpTo(UNION {EmbeddingsOf(c) : c \in ChunkPool}, MaxChunks) :
                    /\ \/ Len(e) = Len(chunks)
                       \/ /\ Len(e) = Len(chunks) + 1
                          /\ e[Len(e)] \in StaleEmbeddings
                    /\ \A i \in 1..Len(chunks) : e[i] \in EmbeddingsOf(chunks[i])}
    /\ query_embedding \in {simple_embed(q) : q \in QueryPool}
                            \cup {Dense(v) : v \in QueryDenseVecs}
    /\ k \in 0..(MaxChunks + 1)
    /\ top_indices = <<>>
    /\ top_chunks = <<>>
    /\ error = "none"
    /\ text = <<>>
    /\ chunk_size = 0
    /\ overlap = 0
    /\ model = "None"
    /\ request = NoRequest
    /\ qi = 0
    /\ answers = <<>>
    /\ response = NoResponse
    /\ AuxIdle

Retrieve ==
    /\ pc = "retrieve_call"
    /\ LET r == retrieve_top_k_chunks(index, query_embedding, chunks, k)
       IN /\ top_indices' = r.top_indices
          /\ top_chunks' = r.result
    /\ pc' = "retrieve_done"
    /\ UNCHANGED <<auxVars, chunkerVars, chunks, error, index, query_embedding, k, requestVars>>

NextRetrieve == Retrieve

SpecRetrieve == InitRetrieve /\ [][NextRetrieve]_vars

ScoreOf(i) == cosine_similarity(query_embedding, index[i])
Returned(i) == \E p \in 1..Len(top_indices) : top_indices[p] = i
RankOf(i) == CHOOSE p \in 1..Len(top_indices) : top_indices[p] = i

\* C1: after retrieve_top_k_chunks, of two chunks at positions i < j with the same
\* similarity score, j is returned only if i is returned too, and then i is
\* ranked before j.
C1_RankingStability ==
    (pc = "retrieve_done" /\ Len(index) = Len(chunks)) =>
        \A i, j \in 1..Len(index) :
            (i < j /\ ScoreEq(ScoreOf(i), ScoreOf(j)) /\ Returned(j)) =>
                (Returned(i) /\ RankOf(i) < RankOf(j))

\* C2: after retrieve_top_k_chunks on an index with one embedding per chunk and
\* k >= 0, exactly min(k, len(chunks)) chunks are returned, each is the chunk at
\* the position it was taken from, and no position is taken twice.
C2_TopKCount ==
    (pc = "retrieve_done" /\ Len(index) = Len(chunks) /\ k >= 0) =>
        /\ Len(top_chunks) = Min(k, Len(chunks))
        /\ Len(top_indices) = Len(top_chunks)
        /\ \A p \in 1..Len(top_chunks) :
                /\ top_indices[p] \in 1..Len(chunks)
                /\ top_chunks[p] = chunks[top_indices[p]]
        /\ \A p, q \in 1..Len(top_indices) : p # q => top_indices[p] # top_indices[q]

\* C2 witness: k smaller than the number of chunks, and k chunks returned
C2_Witness ==
    /\ pc = "retrieve_done"
    /\ Len(chunks) = 3
    /\ k = 2
    /\ Len(top_chunks) = 2

\* chunks[i] for some i in top_indices is past the end of chunks
SearchFails == \E p \in 1..Len(top_indices) : top_indices[p] > Len(chunks)

\* C15: when the search step of retrieve_top_k_chunks fails (a top-ranked index
\* entry has no chunk), no exception reaches the caller and the result is
\* chunks[:k], the first k chunks in original order.
C15_SearchFailureFallback ==
    (pc = "retrieve_done" /\ SearchFails) =>
        /\ error = "none"
        /\ top_chunks = Slice(chunks, k)

\* C15 witness: the index has one entry more than there are chunks, the search
\* failed and the first k chunks came back, fewer than there are
C15_Witness ==
    /\ pc = "retrieve_done"
    /\ SearchFails
    /\ Len(chunks) = 2
    /\ k = 1
    /\ top_chunks = <<chunks[1]>>

MammalScenario ==
    /\ chunks = <<CatsChunk, FishChunk, RocksChunk>>
    /\ index = build_faiss_index([i \in 1..3 |-> simple_embed(chunks[i])])
    /\ query_embedding = simple_embed(MammalQuery)
    /\ k = 2

\* C4: with sparse embeddings, the query "What is a mammal?" against the chunks
\* "Cats are mammals.", "Fish are not mammals.", "Rocks are not alive." and k = 2
\* returns "Cats are mammals.", "Fish are not mammals." in this order.
C4_MammalScenario ==
    (pc = "retrieve_done" /\ MammalScenario) =>
        top_chunks = <<CatsChunk, FishChunk>>

----------------------------------------------------------------------------
(* SpecCache: the handlers of main.py around the response cache. A handler  *)
(* is a coroutine without awaits, so it runs from its first line to its     *)
(* return before the next one starts; the pipeline between the cache lookup *)
(* and the cache write is taken by its outcome.                             *)

CACHE_TTL == 3600

\* md5 of the documents URL and the JSON of the questions: the pair itself
get_cache_key(documents, questions) == <<documents, questions>>

\* is_cache_valid that also accepts an entry of age CACHE_TTL
is_cache_valid_Inclusive(cache_entry, t) == t - cache_entry.timestamp <= CACHE_TTL

\* datetime.now() - cache_time < timedelta(seconds=CACHE_TTL), at time t; every
\* entry hackrx_run writes has a timestamp
is_cache_valid(cache_entry, t) == t - cache_entry.timestamp < CACHE_TTL

\* cleanup_cache at time t: the cache without the entries of age >= CACHE_TTL
cleanup_cache(c, t) ==
    [key \in {x \in DOMAIN c : ~(t - c[x].timestamp >= CACHE_TTL)} |-> c[key]]

\* cache[cache_key] = {"response": ..., "timestamp": ...}
CachePut(c, key, entry) ==
    [x \in DOMAIN c \cup {key} |-> IF x = key THEN entry ELSE c[x]]

\* the documents URLs and question lists of the requests
CacheRequests ==
    {[documents |-> [kind |-> "url", text |-> <<"u", "1">>], questions |-> <<CatsQuery>>],
     [documents |-> [kind |-> "url", text |-> <<"u", "2">>],
      questions |-> <<CatsQuery, MammalQuery>>]}

\* how much the clock can move between two readings
TickSteps == {CACHE_TTL - 1, CACHE_TTL, CACHE_TTL + 1}
MaxClock == MaxTicks * (CACHE_TTL + 1)

\* the exception the pipeline raises before the question loop for what the
\* download gave, NoException when it reaches the loop
PipelineFailure(doc) ==
    LET chunked == chunk_text(doc.text, DEFAULT_CHUNK_SIZE, DEFAULT_OVERLAP)
    IN IF doc.kind = "DocumentLoadError" THEN DocumentLoadError
       ELSE IF doc.kind = "oversize" THEN HTTPException(400, TOO_LARGE_DETAIL)
       ELSE IF chunked.error # "none"
       THEN [type |-> chunked.error, status |-> 0, detail |-> ""]
       ELSE IF validate_chunks(chunked.chunks) = <<>>
       THEN HTTPException(400, NO_CONTENT_DETAIL)
       ELSE NoException

\* the exceptions the pipeline can raise before the question loop
PipelineFailures == {PipelineFailure(doc) : doc \in DocOutcomes} \ {NoException}

\* the answers list after the question loop: per question the string
\* generate_answer returned or the placeholder of the except branch
AnswerLists(questions) ==
    {a \in SeqsUpTo({LLM_ANSWER_TEXT, PLACEHOLDER_TEXT}, Len(questions)) :
        Len(a) = Len(questions)}

\* an exception of no class the except clauses name, raised anywhere in the try
\* body before the question loop ends
UnexpectedException == [type |-> "Exception", status |-> 0, detail |-> ""]

\* how the try body of hackrx_run ends: with the exception it raised, or with
\* NoException when it ran to its return
TryOutcomes == PipelineFailures \cup {UnexpectedException, NoException}

\* the try body with the cache write placed before the question loop, where no
\* answer is in the list yet
hackrx_try_WriteFirst(c, key, exc, a, t) ==
    LET early == [status |-> 200, detail |-> "", answers |-> <<>>]
        response_data == [status |-> 200, detail |-> "", answers |-> a]
    IN IF exc # NoException
       THEN [response |-> ErrorResponse(hackrx_except(exc)),
             cache |-> CachePut(c, key, [response |-> early, timestamp |-> t])]
       ELSE [response |-> response_data,
             cache |-> CachePut(c, key, [response |-> response_data, timestamp |-> t])]

\* the try statement of hackrx_run on a cache miss: an exception leaves the try
\* body before the cache write and an except clause turns it into the error
\* response; without one the body builds response_data from the answers list,
\* stores it under the key and returns it. The result is the response and the
\* cache after the call.
hackrx_try(c, key, exc, a, t) ==
    LET response_data == [status |-> 200, detail |-> "", answers |-> a]
    IN IF exc # NoException
       THEN [response |-> ErrorResponse(hackrx_except(exc)), cache |-> c]
       ELSE [response |-> response_data,
             cache |-> CachePut(c, key, [response |-> response_data, timestamp |-> t])]

InitCache ==
    /\ pc = "idle"
    /\ cache = <<>>
    /\ now = 0
    /\ request = NoRequest
    /\ response = NoResponse
    /\ ValidateIdle
    /\ LoadIdle
    /\ LLMIdle
    /\ SentenceIdle
    /\ text = <<>>
    /\ chunk_size = DEFAULT_CHUNK_SIZE
    /\ overlap = DEFAULT_OVERLAP
    /\ chunks = <<>>
    /\ error = "none"
    /\ index = <<>>
    /\ query_embedding = NoEmbedding
    /\ k = DEFAULT_K
    /\ top_indices = <<>>
    /\ top_chunks = <<>>
    /\ model = "None"
    /\ qi = 0
    /\ answers = <<>>

cacheRest == <<chunkerVars, chunks, error, retrieveVars, model, qi, answers,
               validateVars, loadVars, llmVars, sentenceVars>>

\* time passes between two handlers
Tick ==
    /\ \E d \in TickSteps :
        /\ now + d <= MaxClock
        /\ now' = now + d
    /\ pc' = "idle"
    /\ UNCHANGED <<cache, request, response, cacheRest>>

\* POST /hackrx/run: the token check, the cache lookup, and on a miss the
\* pipeline and, when it succeeds, the cache write
HackrxRun ==
    \E auth \in {"ok", "missing", "wrong"}, req \in CacheRequests :
        LET denied == check_token(auth)
            cache_key == get_cache_key(req.documents, req.questions)
        IN /\ request' = [authorization |-> auth, documents |-> req.documents,
                          questions |-> req.questions]
           /\ IF denied # NoException
              THEN /\ response' = ErrorResponse(denied)
                   /\ pc' = "denied"
                   /\ UNCHANGED <<cache, now>>
              ELSE IF cache_key \in DOMAIN cache /\ is_cache_valid(cache[cache_key], now)
              THEN /\ response' = cache[cache_key].response
                   /\ pc' = "cached"
                   /\ UNCHANGED <<cache, now>>
              ELSE /\ pc' = "responded"
                   /\ \E d \in {0} \cup TickSteps :
                        /\ now + d <= MaxClock
                        /\ now' = now + d
                   /\ \E exc \in TryOutcomes, a \in AnswerLists(req.questions) :
                        LET done == hackrx_try(cache, cache_key, exc, a, now')
                        IN /\ response' = done.response
                           /\ cache' = done.cache
    /\ UNCHANGED cacheRest

\* GET /health
HealthCheck ==
    /\ cache' = cleanup_cache(cache, now)
    /\ request' = NoRequest
    /\ response' = [status |-> 200, detail |-> "healthy", answers |-> <<>>]
    /\ pc' = "health_check"
    /\ UNCHANGED <<now, cacheRest>>

\* GET /cache/stats
CacheStats ==
    /\ \E auth \in {"ok", "missing", "wrong"} :
        /\ request' = [NoRequest EXCEPT !.authorization = auth]
        /\ IF check_token(auth) # NoException
           THEN /\ response' = ErrorResponse(check_token(auth))
                /\ UNCHANGED cache
           ELSE /\ cache' = cleanup_cache(cache, now)
                /\ response' = [status |-> 200, detail |-> "cache_stats", answers |-> <<>>]
    /\ pc' = "cache_stats"
    /\ UNCHANGED <<now, cacheRest>>

\* DELETE /cache/clear
ClearCache ==
    /\ \E auth \in {"ok", "missing", "wrong"} :
        /\ request' = [NoRequest EXCEPT !.authorization = auth]
        /\ IF check_token(auth) # NoException
           THEN /\ response' = ErrorResponse(check_token(auth))
                /\ UNCHANGED cache
           ELSE /\ cache' = <<>>
                /\ response' = [status |-> 200, detail |-> "Cache cleared", answers |-> <<>>]
    /\ pc' = "clear_cache"
    /\ UNCHANGED <<now, cacheRest>>

NextCache == Tick \/ HackrxRun \/ HealthCheck \/ CacheStats \/ ClearCache

SpecCache == InitCache /\ [][NextCache]_vars

\* the step is a hackrx_run call that passed the token check
RunStep == pc' \in {"cached", "responded"}
RunKey == get_cache_key(request'.documents, request'.questions)
AgeOf(key) == now - cache[key].timestamp

\* a cached response is returned only for an entry younger than CACHE_TTL, and
\* it is that entry's response
ServesOnlyFresh ==
    pc' = "cached" =>
        /\ RunKey \in DOMAIN cache
        /\ AgeOf(RunKey) < CACHE_TTL
        /\ response' = cache[RunKey].response

StaleHit == RunKey \in DOMAIN cache /\ AgeOf(RunKey) >= CACHE_TTL

\* right after cleanup_cache no entry of age >= CACHE_TTL is in the cache
CleanAfterCleanup ==
    (pc \in {"health_check", "cache_stats"} /\ response.status = 200) =>
        \A key \in DOMAIN cache : AgeOf(key) < CACHE_TTL

\* C20 as stated: over every sequence of hackrx_run, health_check, cache_stats
\* and clear_cache calls with the clock moving forward, hackrx_run returns a
\* cached response only for an entry younger than CACHE_TTL; for an entry of age
\* >= CACHE_TTL it recomputes the request and overwrites the entry; and right
\* after cleanup_cache no entry of age >= CACHE_TTL remains.
C20_CacheFreshness ==
    /\ [][RunStep =>
            /\ ServesOnlyFresh
            /\ StaleHit =>
                /\ pc' = "responded"
                /\ cache'[RunKey].timestamp = now']_vars
    /\ []CleanAfterCleanup

\* C20 amended: as above, but the recomputation overwrites the entry of age
\* >= CACHE_TTL only when it succeeds; when it fails, the cache is left as it
\* is, so the old entry stays, unserved, until cleanup_cache or clear_cache
\* removes it.
C20_CacheFreshnessOnSuccess ==
    /\ [][RunStep =>
            /\ ServesOnlyFresh
            /\ StaleHit =>
                /\ pc' = "responded"
                /\ IF response'.status = 200
                   THEN cache'[RunKey] = [response |-> response', timestamp |-> now']
                   ELSE cache' = cache]_vars
    /\ []CleanAfterCleanup

\* C20 witness: hackrx_run returned the cached response of an entry one second
\* younger than CACHE_TTL
C20_Witness ==
    /\ pc = "cached"
    /\ LET key == get_cache_key(request.documents, request.questions)
       IN /\ key \in DOMAIN cache
          /\ AgeOf(key) = CACHE_TTL - 1
          /\ response = cache[key].response

\* the step is a hackrx_run call, whatever its end
HackrxStep == pc' \in {"denied", "cached", "responded"}

\* every cached response has one answer per question of the request it is
\* stored under
EveryEntryAnswersAll ==
    \A key \in DOMAIN cache :
        /\ cache[key].response.status = 200
        /\ Len(cache[key].response.answers) = Len(key[2])

\* C21: a hackrx_run call that ends in an error (failed token check, document
\* load error, oversize document, zero valid chunks, any other exception of the
\* try body) adds, replaces and removes no cache entry; a call changes the
\* cache only on its success path, by storing under the request's key the
\* response it returns, which has one answer per question; so every cached
\* response has exactly as many answers as its request had questions.
C21_ErrorLeavesCache ==
    /\ [][HackrxStep =>
            /\ response'.status # 200 => cache' = cache
            /\ cache' # cache =>
                /\ pc' = "responded"
                /\ response'.status = 200
                /\ Len(response'.answers) = Len(request'.questions)
                /\ cache' = CachePut(cache, RunKey,
                                [response |-> response', timestamp |-> now'])]_vars
    /\ []EveryEntryAnswersAll

\* C21 witness: a request of two questions that passed the token check found
\* its entry too old, failed with a 400 in the try body, and the entry with its
\* two answers is still in the cache
C21_Witness ==
    /\ pc = "responded"
    /\ response.status = 400
    /\ Len(request.questions) = 2
    /\ LET key == get_cache_key(request.documents, request.questions)
       IN /\ key \in DOMAIN cache
          /\ AgeOf(key) >= CACHE_TTL
          /\ Len(cache[key].response.answers) = 2

====
